---- MODULE Spec2Model ----
(***************************************************************************)
(* Model of the short-video-maker render service.                          *)
(*                                                                         *)
(* src/server.js holds two generations of the scene-based POST /render     *)
(* handler: the multi-clip one (lines 1-350, handler "multi") and the      *)
(* single-clip one (lines 352-664, handler "single").                      *)
(* src/unnamed/part_000 is the earlier caption-only handler ("legacy").    *)
(*                                                                         *)
(* All durations are in centiseconds (1 s = 100), so that the 0.75 s and   *)
(* 0.6 s thresholds of the source are the integers 75 and 60.              *)
(*                                                                         *)
(* Spec is the request pipeline of the three handlers; SpecCap is the      *)
(* same pipeline on scene lists longer than the cap; SpecSplit,            *)
(* SpecSanitize and SpecPick run splitForTTS, sanitizeForDrawtext and      *)
(* pickVideoFileForOrientation on bounded inputs; SpecMux is the timeline  *)
(* assembly and mux; SpecFiles is the files two concurrent requests write. *)
(***************************************************************************)
EXTENDS Integers, Sequences, FiniteSets, TLC

(* ------------------------------ bounds --------------------------------- *)
\* longest scene list of a request in the request pipeline
MaxScenes == 2
\* largest number of videos the footage provider returns
MaxPool == 2
\* longest text handed to splitForTTS in the text-splitting specification
MaxTextLen == 5
\* largest maxLen handed to splitForTTS in the text-splitting specification
MaxChunkLen == 3
\* largest number of whole seconds that pass between request start and the budget check
MaxElapsed == 1
\* longest caption handed to sanitizeForDrawtext in the caption-escaping specification
MaxCaptionLen == 2
\* largest number of video files of a search result in the file-selection specification
MaxFiles == 3
\* number of scenes beyond the cap in the long list of the scene-cap specification
ExtraScenes == 1
\* longest list of built scenes in the muxing specification
MaxMuxScenes == 2

(* -------------------------- program constants -------------------------- *)
\* the scene list without the slice
TakeAll(scenes) == scenes

\* scenes.slice(0, 60)
SceneCap == 60
\* Math.max(3, ...) of targetSec, in centiseconds
MinSceneSec == 300
\* Math.min(60, vSec) of targetSec, in centiseconds
MaxSceneSec == 6000
\* take <= 0.75 / remaining <= 0.75, in centiseconds
SkipSec == 75
\* Math.max(0.6, takeSec) of makeSubsegment, in centiseconds
FloorSec == 60
\* splitForTTS(text, maxLen=180)
DefaultMaxLen == 180
\* minClipSec=4 default of the multi-clip buildSceneWithVoice, in centiseconds
DefaultMinClipMulti == 400
\* minClipSec=3 default of the single-clip buildSceneWithVoice, in centiseconds
DefaultMinClipSingle == 300
\* maxClips=4 default
DefaultMaxClips == 4
\* Number(process.env.MAX_RENDER_SECONDS || 300)
DefaultTimeoutSec == 300

Min(a, b) == IF a <= b THEN a ELSE b
Max(a, b) == IF a >= b THEN a ELSE b

\* JavaScript  a || b  on numbers: 0 is falsy
OrNum(a, b) == IF a = 0 THEN b ELSE a

(* ------------------------------ splitForTTS ---------------------------- *)
Punct == {".", "!", "?", ",", ";", ":"}
White == {" "}

RECURSIVE TrimStart(_)
TrimStart(s) == IF s # <<>> /\ Head(s) \in White THEN TrimStart(Tail(s)) ELSE s

RECURSIVE TrimEnd(_)
TrimEnd(s) ==
  IF s # <<>> /\ s[Len(s)] \in White THEN TrimEnd(SubSeq(s, 1, Len(s) - 1)) ELSE s

\* String.prototype.trim
Trim(s) == TrimEnd(TrimStart(s))

\* the test of the loop body: buf.length >= maxLen && /[\.!\?,;:]$/.test(buf)
SplitCut(buf, maxLen) == Len(buf) >= maxLen /\ buf # <<>> /\ buf[Len(buf)] \in Punct

\* one iteration of the for loop of splitForTTS on the pair <<parts, buf>>
SplitStep(parts, buf, ch, maxLen) ==
  LET b == Append(buf, ch) IN
  IF SplitCut(b, maxLen) THEN <<Append(parts, Trim(b)), <<>>>> ELSE <<parts, b>>

\* the statements after the loop without the flush of the last buffer
SplitFlushNoRest(parts, buf, text) == IF Len(parts) > 0 THEN parts ELSE <<text>>

\* the statements after the loop: flush the buffer, fall back to [text]
SplitFlush(parts, buf, text) ==
  LET p == IF Trim(buf) # <<>> THEN Append(parts, Trim(buf)) ELSE parts IN
  IF Len(p) > 0 THEN p ELSE <<text>>

\* the for loop over the characters t[lo..hi], in order, from the pair st = <<parts, buf>>
\* (the range is halved, and the pair of the first half is evaluated before the second
\* half starts, so that the evaluation depth stays logarithmic in the length)
RECURSIVE SplitLoop(_, _, _, _, _)
SplitLoop(t, lo, hi, st, maxLen) ==
  IF lo > hi THEN st
  ELSE IF lo = hi THEN SplitStep(st[1], st[2], t[lo], maxLen)
  ELSE LET mid == (lo + hi) \div 2
           left == SplitLoop(t, lo, mid, st, maxLen)
       IN IF Len(left) = 2 THEN SplitLoop(t, mid + 1, hi, left, maxLen) ELSE left

splitForTTS(text, maxLen) ==
  LET t == Trim(text)
      r == SplitLoop(t, 1, Len(t), <<<<>>, <<>>>>, maxLen)
  IN SplitFlush(r[1], r[2], text)

(* --------------------- footage provider results ------------------------ *)
\* a video file of a search result; link "" is a missing link
FilePortrait == [width |-> 9, height |-> 16, link |-> "p"]
FileLandscape == [width |-> 16, height |-> 9, link |-> "l"]
FileNoLink == [width |-> 9, height |-> 16, link |-> ""]
\* what candidates[0] is when a result has no files (undefined in the source)
NoFile == [width |-> 0, height |-> 0, link |-> ""]

FileLists == {<<>>, <<FileNoLink>>, <<FilePortrait>>, <<FileLandscape, FilePortrait>>}
\* v.duration of a search result, 0 when absent
Durations == {0, 200, 1000}
Videos == [duration : Durations, video_files : FileLists]

RECURSIVE SeqsUpTo(_, _)
SeqsUpTo(S, n) ==
  IF n = 0 THEN {<<>>}
  ELSE LET R == SeqsUpTo(S, n - 1) IN R \cup {Append(r, x) : r \in {q \in R : Len(q) = n - 1}, x \in S}

\* json.videos of one search response
Pools == SeqsUpTo(Videos, MaxPool)

Orientations == {"portrait", "landscape"}

\* the filter callback of pickVideoFileForOrientation
MatchesOrientation(f, orientation) ==
  IF orientation = "portrait" THEN f.height >= f.width ELSE f.width >= f.height

Area(f) == f.width * f.height

RECURSIVE FilterSeq(_, _)
FilterSeq(s, orientation) ==
  IF s = <<>> THEN <<>>
  ELSE IF MatchesOrientation(Head(s), orientation)
       THEN <<Head(s)>> \o FilterSeq(Tail(s), orientation)
       ELSE FilterSeq(Tail(s), orientation)

\* candidates.sort(by area, descending)[0] of a stable sort: the first file of largest area
FirstLargest(c) ==
  IF c = <<>> THEN NoFile
  ELSE c[CHOOSE k \in 1..Len(c) :
            /\ \A m \in 1..Len(c) : Area(c[m]) <= Area(c[k])
            /\ \A m \in 1..(k - 1) : Area(c[m]) < Area(c[k])]

\* the pick without  if (!candidates.length) candidates = files;
pickVideoFileNoFallback(video, orientation) ==
  FirstLargest(FilterSeq(video.video_files, orientation))

pickVideoFileForOrientation(video, orientation) ==
  LET files == video.video_files
      filtered == FilterSeq(files, orientation)
      candidates == IF filtered = <<>> THEN files ELSE filtered
  IN FirstLargest(candidates)

\* insertion of x into a list sorted by dur, descending, after its equals (stable sort)
InsertByDur(sorted, x) ==
  LET k == Cardinality({m \in 1..Len(sorted) : sorted[m].dur >= x.dur})
  IN SubSeq(sorted, 1, k) \o <<x>> \o SubSeq(sorted, k + 1, Len(sorted))

RECURSIVE SortByDur(_, _)
SortByDur(s, acc) ==
  IF s = <<>> THEN acc ELSE SortByDur(Tail(s), InsertByDur(acc, Head(s)))

RECURSIVE MapPool(_, _)
MapPool(pool, orientation) ==
  IF pool = <<>> THEN <<>>
  ELSE LET v == Head(pool)
           x == [file |-> pickVideoFileForOrientation(v, orientation), dur |-> v.duration]
       IN (IF x.file.link # "" THEN <<x>> ELSE <<>>) \o MapPool(Tail(pool), orientation)

\* pool.map(...).filter(x => x.file && x.file.link), then sort by dur descending
Oriented(pool, orientation) == SortByDur(MapPool(pool, orientation), <<>>)

(* ------------------------- footage selection --------------------------- *)
\* Math.max(3, Math.min(60, vSec))
TargetSec(vSec) == Max(MinSceneSec, Min(MaxSceneSec, vSec))

\* the take of one candidate in the greedy walk of the multi-clip buildSceneWithVoice
GreedyTake(dur, minClipSec, remaining) ==
  Min(Max(minClipSec, Min(OrNum(dur, minClipSec), remaining)), remaining)

\* the take of the fallback branch (chosen.length === 0)
FallbackTake(dur, minClipSec, targetSec) ==
  Min(targetSec, Max(minClipSec, OrNum(dur, minClipSec)))

\* the take of the single-clip buildSceneWithVoice
SingleTake(dur, minClipSec, targetSec) ==
  Max(minClipSec, Min(OrNum(dur, minClipSec), targetSec))

\* the for loop over oriented without its  if (chosen.length >= maxClips) break;
RECURSIVE WalkNoCap(_, _, _, _, _, _)
WalkNoCap(oriented, k, chosen, remaining, minClipSec, maxClips) ==
  IF k > Len(oriented)
  THEN [chosen |-> chosen, remaining |-> remaining]
  ELSE LET cand == oriented[k]
           take == GreedyTake(cand.dur, minClipSec, remaining)
       IN IF take <= SkipSec
          THEN WalkNoCap(oriented, k + 1, chosen, remaining, minClipSec, maxClips)
          ELSE LET c == Append(chosen, [url |-> cand.file.link, take |-> take])
                   r == remaining - take
               IN IF r <= SkipSec THEN [chosen |-> c, remaining |-> r]
                  ELSE WalkNoCap(oriented, k + 1, c, r, minClipSec, maxClips)

\* the for loop over oriented: returns the chosen list and the remaining time
RECURSIVE Walk(_, _, _, _, _, _)
Walk(oriented, k, chosen, remaining, minClipSec, maxClips) ==
  IF k > Len(oriented) \/ Len(chosen) >= maxClips
  THEN [chosen |-> chosen, remaining |-> remaining]
  ELSE LET cand == oriented[k]
           take == GreedyTake(cand.dur, minClipSec, remaining)
       IN IF take <= SkipSec
          THEN Walk(oriented, k + 1, chosen, remaining, minClipSec, maxClips)
          ELSE LET c == Append(chosen, [url |-> cand.file.link, take |-> take])
                   r == remaining - take
               IN IF r <= SkipSec THEN [chosen |-> c, remaining |-> r]
                  ELSE Walk(oriented, k + 1, c, r, minClipSec, maxClips)

\* steps 3 of the multi-clip buildSceneWithVoice; ok is FALSE when oriented[0] is
\* undefined in the fallback branch (a TypeError)
ChooseMulti(oriented, targetSec, minClipSec, maxClips) ==
  LET w == Walk(oriented, 1, <<>>, targetSec, minClipSec, maxClips) IN
  IF w.chosen # <<>> THEN [ok |-> TRUE, chosen |-> w.chosen, remaining |-> w.remaining]
  ELSE IF oriented = <<>> THEN [ok |-> FALSE, chosen |-> <<>>, remaining |-> w.remaining]
  ELSE [ok |-> TRUE,
        chosen |-> <<[url |-> oriented[1].file.link,
                      take |-> FallbackTake(oriented[1].dur, minClipSec, targetSec)]>>,
        remaining |-> w.remaining]

\* the pick of the single-clip buildSceneWithVoice; ok is FALSE when pick is undefined
ChooseSingle(oriented, targetSec, minClipSec) ==
  IF oriented = <<>> THEN [ok |-> FALSE, chosen |-> <<>>, remaining |-> targetSec]
  ELSE [ok |-> TRUE,
        chosen |-> <<[url |-> oriented[1].file.link,
                      take |-> SingleTake(oriented[1].dur, minClipSec, targetSec)]>>,
        remaining |-> targetSec]

\* "-t", String(Math.max(0.6, takeSec))
RenderSec(takeSec) == Max(FloorSec, takeSec)

RECURSIVE SumTakes(_)
SumTakes(chosen) == IF chosen = <<>> THEN 0 ELSE Head(chosen).take + SumTakes(Tail(chosen))

(* ------------------------- caption escaping ---------------------------- *)
\* String.prototype.replace(/ch/g, repl): every occurrence of ch becomes repl
RECURSIVE ReplaceAll(_, _, _)
ReplaceAll(text, ch, repl) ==
  IF text = <<>> THEN <<>>
  ELSE (IF Head(text) = ch THEN repl ELSE <<Head(text)>>) \o ReplaceAll(Tail(text), ch, repl)

\* the chain of .replace calls of sanitizeForDrawtext, as <<character, replacement>>:
\* "server" is either version of server.js, "legacy" the caption-only handler
SanitizePasses(version) ==
  IF version = "server"
  THEN << <<"\\", <<"\\", "\\">> >>, <<":", <<"\\", ":">> >>, <<"'", <<"\\", "'">> >>,
          <<"%", <<"\\", "%">> >>, <<",", <<"\\", ",">> >>, <<"[", <<"\\", "[">> >>,
          <<"]", <<"\\", "]">> >>, <<"\n", <<"\\", "n">> >> >>
  ELSE << <<"\\", <<"\\", "\\">> >>, <<":", <<"\\", ":">> >>, <<"'", <<"\\", "'">> >>,
          <<"%", <<"\\", "%">> >>, <<"\n", <<"\\", "n">> >> >>

\* the first n replacements applied to text, in order
RECURSIVE SanitizeUpTo(_, _, _)
SanitizeUpTo(version, text, n) ==
  IF n = 0 THEN text
  ELSE LET p == SanitizePasses(version)[n]
       IN ReplaceAll(SanitizeUpTo(version, text, n - 1), p[1], p[2])

sanitizeForDrawtext(version, text) == SanitizeUpTo(version, text, Len(SanitizePasses(version)))

(* ------------------------------ requests ------------------------------- *)
Handlers == {"legacy", "multi", "single"}
SceneHandlers == {"multi", "single"}

\* narration texts, by name; "long" needs two speech requests
TextOf(id) ==
  CASE id = "" -> <<>>
    [] id = "hi" -> <<"h", "i", ".">>
    [] id = "yo" -> <<"y", "o">>
    [] id = "long" -> [k \in 1..(DefaultMaxLen + 2) |-> IF k = DefaultMaxLen THEN "." ELSE "a"]

\* an absent option is <<>>, a supplied one is <<value>>
SceneA == [text |-> "hi", search |-> "ocean", minClipSec |-> <<>>, maxClips |-> <<>>]
SceneB == [text |-> "long", search |-> "", minClipSec |-> <<>>, maxClips |-> <<2>>]
SceneC == [text |-> "", search |-> "", minClipSec |-> <<50>>, maxClips |-> <<1>>]
SceneD == [text |-> "yo", search |-> "sea", minClipSec |-> <<6100>>, maxClips |-> <<0>>]
SceneSet == {SceneA, SceneB, SceneC, SceneD}

\* scene lists of the request pipeline
SceneLists == SeqsUpTo(SceneSet, MaxScenes)

\* the measured narration durations ffprobe can report
VSecs == {0, 250, 1000, 9000}

\* q = (search || text || "nature")
Query(scene) ==
  IF scene.search # "" THEN scene.search ELSE IF scene.text # "" THEN scene.text ELSE "nature"

MinClipSec(scene, handler) ==
  IF scene.minClipSec # <<>> THEN scene.minClipSec[1]
  ELSE IF handler = "multi" THEN DefaultMinClipMulti ELSE DefaultMinClipSingle

MaxClips(scene) == IF scene.maxClips # <<>> THEN scene.maxClips[1] ELSE DefaultMaxClips

\* the validation without its Array.isArray test
ValidScenesNoArrayTest(isArray, scenes) == Len(scenes) # 0

\* Array.isArray(scenes) && scenes.length !== 0
ValidScenes(isArray, scenes) == isArray /\ Len(scenes) # 0

\* scenes.slice(0, 60)
Take(scenes) == SubSeq(scenes, 1, Min(Len(scenes), SceneCap))

\* list.unshift(x) in place of list.push(x)
PushFront(list, x) == <<x>> \o list

\* list.push(x)
Push(list, x) == Append(list, x)

\* a promise that settles when the operation is started, not when it has closed
ResolvedAtSpawn(fl, op) == fl

\* the promise of a subprocess or download settles on its close: it is no longer running
Resolved(fl, op) == fl \ {op}

\* timeoutSec - Math.floor((Date.now() - started) / 1000)
TimeLeft(timeoutSec, elapsedSec) == timeoutSec - elapsedSec

NoResponse == [status |-> 0, msg |-> <<>>, meta |-> -1]
ErrorResponse(code, m) == [status |-> code, msg |-> m, meta |-> -1]
DoneResponse(n) == [status |-> 200, msg |-> <<"done">>, meta |-> n]

VARIABLES
  req,        \* the request: handler, authorized, isArray, scenes, orientation, musicUrl
  env,        \* the environment: hasKey (PEXELS_API_KEY), timeoutSec (MAX_RENDER_SECONDS)
  elapsed,    \* whole seconds between request start and the admission point
  pc,         \* the await the handler is suspended at
  i,          \* loop index of the scene loop
  chunks,     \* chunks of ttsForScene
  partPaths,  \* partPaths of ttsForScene
  targetSec,  \* targetSec of buildSceneWithVoice
  chosen,     \* chosen of buildSceneWithVoice
  segParts,   \* segParts of buildSceneWithVoice
  segPaths,   \* segPaths of the handler
  voicePaths, \* voicePaths of the handler
  inflight,   \* external operations started and not yet settled
  started,    \* every external operation started so far, by kind and scene
  failedOp,   \* kind of the first external operation that failed, "" if none
  zeroAt,     \* index of the scene whose search returned zero results, -1 if none
  response,   \* the HTTP response sent
  outFiles,   \* files in OUT_DIR
  sp,         \* the run of splitForTTS of the text-splitting specification
  sz,         \* the run of sanitizeForDrawtext of the caption-escaping specification
  pk,         \* the run of pickVideoFileForOrientation of the file-selection specification
  mx,         \* the run of the timeline assembly of the muxing specification
  fs          \* the files of the working directory under two concurrent requests

vars == <<req, env, elapsed, pc, i, chunks, partPaths, targetSec, chosen, segParts,
          segPaths, voicePaths, inflight, started, failedOp, zeroAt, response, outFiles, sp,
          sz, pk, mx, fs>>

reqVars == <<req, env, sp, sz, pk, mx, fs>>
sceneVars == <<chunks, partPaths, targetSec, chosen, segParts>>
listVars == <<segPaths, voicePaths>>

\* an external operation: its kind, the scene it belongs to (-1: the request), its position
\* in the loop that starts it, and the -t seconds of a segment render
Op(kind, idx, part, t) == [kind |-> kind, idx |-> idx, part |-> part, t |-> t]

InitLocals ==
  /\ elapsed = 0
  /\ pc = "start"
  /\ i = 0
  /\ chunks = <<>>
  /\ partPaths = <<>>
  /\ targetSec = 0
  /\ chosen = <<>>
  /\ segParts = <<>>
  /\ segPaths = <<>>
  /\ voicePaths = <<>>
  /\ inflight = {}
  /\ started = {}
  /\ failedOp = ""
  /\ zeroAt = -1
  /\ response = NoResponse
  /\ outFiles = {}

pipeVars == <<req, env, elapsed, pc, i, sceneVars, listVars, inflight, started, failedOp,
              zeroAt, response, outFiles>>

\* no request is being served: the state of the handler under the function specifications
NoRequest ==
  /\ req = [handler |-> "multi", authorized |-> FALSE, isArray |-> FALSE, scenes |-> <<>>,
            orientation |-> "portrait", musicUrl |-> ""]
  /\ env = [hasKey |-> FALSE, timeoutSec |-> DefaultTimeoutSec]
  /\ InitLocals

SpIdle == [text |-> <<>>, maxLen |-> 0, k |-> 0, parts |-> <<>>, buf |-> <<>>, done |-> FALSE, result |-> <<>>]
SzIdle == [version |-> "", text |-> <<>>, pass |-> 0, out |-> <<>>]
PkIdle == [video |-> <<>>, orientation |-> "", done |-> FALSE, file |-> <<>>]
MxIdle == [scenes |-> <<>>, step |-> "", videoSec |-> 0, audioSec |-> 0, outSec |-> 0]
FsIdle == [written |-> {}, at |-> <<>>]

Init ==
  /\ req \in [handler : Handlers, authorized : BOOLEAN, isArray : BOOLEAN,
              scenes : SceneLists, orientation : Orientations, musicUrl : {"", "m"}]
  /\ req.handler = "legacy" => (req.scenes = <<>> /\ req.isArray /\ req.orientation = "portrait")
  /\ req.handler # "legacy" => req.musicUrl = ""
  /\ env \in [hasKey : BOOLEAN, timeoutSec : {0, DefaultTimeoutSec}]
  /\ sp = SpIdle
  /\ sz = SzIdle
  /\ pk = PkIdle
  /\ mx = MxIdle
  /\ fs = FsIdle
  /\ InitLocals

\* start the operation `next` when the awaited operation `op` has settled
Await(op, next) ==
  /\ inflight' = Resolved(inflight, op) \cup {next}
  /\ started' = started \cup {[kind |-> next.kind, idx |-> next.idx]}

\* throw inside the handler: the catch block answers 500
Throw(op, m) ==
  /\ inflight' = Resolved(inflight, op)
  /\ response' = ErrorResponse(500, m)
  /\ pc' = "done"

Awaiting(p, kind) == pc = p /\ inflight # {} /\ \E op \in inflight : op.kind = kind
TheOp(kind) == CHOOSE op \in inflight : op.kind = kind

(* ----------------- POST /render of src/server.js ----------------------- *)
Unauthorized ==
  /\ pc = "start" /\ req.handler \in SceneHandlers
  /\ ~req.authorized
  /\ response' = ErrorResponse(401, <<"Unauthorized">>)
  /\ pc' = "done"
  /\ elapsed' \in 0..MaxElapsed
  /\ UNCHANGED <<reqVars, i, sceneVars, listVars, inflight, started, failedOp, zeroAt, outFiles>>

RejectScenes ==
  /\ pc = "start" /\ req.handler \in SceneHandlers
  /\ req.authorized
  /\ ~ValidScenes(req.isArray, req.scenes)
  /\ response' = ErrorResponse(400, <<"Provide scenes[]">>)
  /\ pc' = "done"
  /\ elapsed' \in 0..MaxElapsed
  /\ UNCHANGED <<reqVars, i, sceneVars, listVars, inflight, started, failedOp, zeroAt, outFiles>>

AcceptRender ==
  /\ pc = "start" /\ req.handler \in SceneHandlers
  /\ req.authorized
  /\ ValidScenes(req.isArray, req.scenes)
  /\ elapsed' \in 0..MaxElapsed
  /\ inflight' = {Op("mkdir", -1, 0, 0)}
  /\ started' = {[kind |-> "mkdir", idx |-> -1]}
  /\ pc' = "ensureDirs"
  /\ UNCHANGED <<reqVars, i, sceneVars, listVars, failedOp, zeroAt, response, outFiles>>

\* buildSceneWithVoice(take[idx], idx, ...) up to its first await, the download of chunk 0
BeginScene(op, idx) ==
  /\ i' = idx
  /\ chunks' = splitForTTS(TextOf(Take(req.scenes)[idx + 1].text), DefaultMaxLen)
  /\ partPaths' = <<>>
  /\ targetSec' = 0
  /\ chosen' = <<>>
  /\ segParts' = <<>>
  /\ Await(op, Op("ttsDownload", idx, 0, 0))
  /\ pc' = "ttsPart"

EnsureDirsDone ==
  /\ req.handler \in SceneHandlers
  /\ Awaiting("ensureDirs", "mkdir")
  /\ BeginScene(TheOp("mkdir"), 0)
  /\ UNCHANGED <<reqVars, elapsed, listVars, failedOp, zeroAt, response, outFiles>>

TtsPartDone ==
  /\ Awaiting("ttsPart", "ttsDownload")
  /\ partPaths' = Push(partPaths, [kind |-> "vpart", idx |-> Len(partPaths)])
  /\ IF Len(partPaths) + 1 < Len(chunks)
     THEN /\ Await(TheOp("ttsDownload"), Op("ttsDownload", i, Len(partPaths) + 1, 0))
          /\ pc' = "ttsPart"
     ELSE /\ Await(TheOp("ttsDownload"), Op("writeFile", i, 0, 0))
          /\ pc' = "ttsList"
  /\ UNCHANGED <<reqVars, elapsed, i, chunks, targetSec, chosen, segParts, listVars,
                 failedOp, zeroAt, response, outFiles>>

TtsListWritten ==
  /\ Awaiting("ttsList", "writeFile")
  /\ Await(TheOp("writeFile"), Op("ffmpegVoice", i, 0, 0))
  /\ pc' = "ttsConcat"
  /\ UNCHANGED <<reqVars, elapsed, i, sceneVars, listVars, failedOp, zeroAt, response, outFiles>>

TtsConcatDone ==
  /\ Awaiting("ttsConcat", "ffmpegVoice")
  /\ Await(TheOp("ffmpegVoice"), Op("ffprobe", i, 0, 0))
  /\ pc' = "probe"
  /\ UNCHANGED <<reqVars, elapsed, i, sceneVars, listVars, failedOp, zeroAt, response, outFiles>>

\* ttsForScene returns durationSec; buildSceneWithVoice goes on to fetchPexelsPool
AfterProbe(sec) ==
  /\ targetSec' = TargetSec(sec)
  /\ IF ~env.hasKey
     THEN /\ Throw(TheOp("ffprobe"), <<"Missing PEXELS_API_KEY">>)
          /\ UNCHANGED started
     ELSE /\ Await(TheOp("ffprobe"), Op("search", i, 0, 0))
          /\ pc' = "search"
          /\ UNCHANGED response
  /\ UNCHANGED <<reqVars, elapsed, i, chunks, partPaths, chosen, segParts, listVars,
                 zeroAt, outFiles>>

\* ffprobe prints the duration
ProbeOk ==
  /\ Awaiting("probe", "ffprobe")
  /\ \E sec \in VSecs : AfterProbe(sec)
  /\ UNCHANGED failedOp

\* ffprobe fails and prints nothing: JSON.parse("{}"), parseFloat("0"), resolve(0)
ProbeFailed ==
  /\ Awaiting("probe", "ffprobe")
  /\ AfterProbe(0)
  /\ failedOp' = IF failedOp = "" THEN "ffprobe" ELSE failedOp

\* ffprobe prints something that is not JSON: JSON.parse throws, reject(e)
ProbeGarbage ==
  /\ Awaiting("probe", "ffprobe")
  /\ Throw(TheOp("ffprobe"), <<"Unexpected token">>)
  /\ failedOp' = IF failedOp = "" THEN "ffprobe" ELSE failedOp
  /\ UNCHANGED <<reqVars, elapsed, i, sceneVars, listVars, started, zeroAt, outFiles>>

\* the selection entered without the test for an empty pool
NoResultsUnchecked(pool) == FALSE

\* if (!pool.length) throw new Error(`No stock videos for "${q}"`)
NoResults(pool) == Len(pool) = 0

\* steps 2 and 3 of buildSceneWithVoice, which run without an await
Select(handler, scene, pool, orientation, target) ==
  LET oriented == Oriented(pool, orientation) IN
  IF handler = "multi"
  THEN ChooseMulti(oriented, target, MinClipSec(scene, handler), MaxClips(scene))
  ELSE ChooseSingle(oriented, target, MinClipSec(scene, handler))

SearchDone ==
  /\ req.handler \in SceneHandlers
  /\ Awaiting("search", "search")
  /\ \E pool \in Pools :
       LET scene == Take(req.scenes)[i + 1]
           sel == Select(req.handler, scene, pool, req.orientation, targetSec)
       IN /\ zeroAt' = IF pool = <<>> THEN i ELSE zeroAt
          /\ IF NoResults(pool)
             THEN /\ Throw(TheOp("search"), <<"No stock videos for", Query(scene)>>)
                  /\ UNCHANGED <<chosen, started>>
             ELSE IF ~sel.ok
             THEN /\ Throw(TheOp("search"), <<"TypeError">>)
                  /\ UNCHANGED <<chosen, started>>
             ELSE /\ chosen' = sel.chosen
                  /\ Await(TheOp("search"), Op("clipDownload", i, 0, 0))
                  /\ pc' = "clip"
                  /\ UNCHANGED response
  /\ UNCHANGED <<reqVars, elapsed, i, chunks, partPaths, targetSec, segParts, listVars,
                 failedOp, outFiles>>

\* makeSubsegment: the source clip is downloaded, ffmpeg is spawned with -t
ClipDownloaded ==
  /\ req.handler \in SceneHandlers
  /\ Awaiting("clip", "clipDownload")
  /\ Await(TheOp("clipDownload"),
           Op("ffmpegRender", i, Len(segParts), RenderSec(chosen[Len(segParts) + 1].take)))
  /\ pc' = "render"
  /\ UNCHANGED <<reqVars, elapsed, i, sceneVars, listVars, failedOp, zeroAt, response, outFiles>>

\* the return of buildSceneWithVoice and the rest of the loop body of the handler
EndScene(op, segPath) ==
  LET scene == Take(req.scenes)[i + 1] IN
  /\ segPaths' = Push(segPaths, segPath)
  /\ voicePaths' = Push(voicePaths, [kind |-> "voice", idx |-> i, from |-> scene])
  /\ IF i + 1 < Len(Take(req.scenes))
     THEN BeginScene(op, i + 1)
     ELSE /\ i' = i + 1
          /\ Await(op, Op("writeFile", -1, 0, 0))
          /\ pc' = "concatList"
          /\ UNCHANGED sceneVars

RenderDoneMulti ==
  /\ req.handler = "multi"
  /\ Awaiting("render", "ffmpegRender")
  /\ segParts' = Push(segParts, [kind |-> "seg", idx |-> i, part |-> Len(segParts)])
  /\ IF Len(segParts) + 1 < Len(chosen)
     THEN /\ Await(TheOp("ffmpegRender"), Op("clipDownload", i, Len(segParts) + 1, 0))
          /\ pc' = "clip"
     ELSE /\ Await(TheOp("ffmpegRender"), Op("writeFile", i, 0, 0))
          /\ pc' = "sceneList"
  /\ UNCHANGED <<reqVars, elapsed, i, chunks, partPaths, targetSec, chosen, listVars,
                 failedOp, zeroAt, response, outFiles>>

SceneListWritten ==
  /\ Awaiting("sceneList", "writeFile")
  /\ Await(TheOp("writeFile"), Op("ffmpegSceneConcat", i, 0, 0))
  /\ pc' = "sceneConcat"
  /\ UNCHANGED <<reqVars, elapsed, i, sceneVars, listVars, failedOp, zeroAt, response, outFiles>>

SceneConcatDone ==
  /\ Awaiting("sceneConcat", "ffmpegSceneConcat")
  /\ EndScene(TheOp("ffmpegSceneConcat"),
              [kind |-> "scene", idx |-> i, from |-> Take(req.scenes)[i + 1]])
  /\ UNCHANGED <<reqVars, elapsed, failedOp, zeroAt, response, outFiles>>

RenderDoneSingle ==
  /\ req.handler = "single"
  /\ Awaiting("render", "ffmpegRender")
  /\ EndScene(TheOp("ffmpegRender"),
              [kind |-> "seg", idx |-> i, from |-> Take(req.scenes)[i + 1]])
  /\ UNCHANGED <<reqVars, elapsed, failedOp, zeroAt, response, outFiles>>

\* concatSegments(segPaths, videoOnly)
ConcatListWritten ==
  /\ Awaiting("concatList", "writeFile")
  /\ Await(TheOp("writeFile"), Op("ffmpegConcatVideo", -1, 0, 0))
  /\ pc' = "concatVideo"
  /\ UNCHANGED <<reqVars, elapsed, i, sceneVars, listVars, failedOp, zeroAt, response, outFiles>>

\* concatAudio(voicePaths, voiceAll)
ConcatVideoDone ==
  /\ Awaiting("concatVideo", "ffmpegConcatVideo")
  /\ Await(TheOp("ffmpegConcatVideo"), Op("writeFile", -1, 0, 0))
  /\ pc' = "alist"
  /\ UNCHANGED <<reqVars, elapsed, i, sceneVars, listVars, failedOp, zeroAt, response, outFiles>>

AListWritten ==
  /\ Awaiting("alist", "writeFile")
  /\ Await(TheOp("writeFile"), Op("ffmpegConcatAudio", -1, 0, 0))
  /\ pc' = "concatAudio"
  /\ UNCHANGED <<reqVars, elapsed, i, sceneVars, listVars, failedOp, zeroAt, response, outFiles>>

ConcatAudioDone ==
  /\ Awaiting("concatAudio", "ffmpegConcatAudio")
  /\ Await(TheOp("ffmpegConcatAudio"), Op("ffmpegMux", -1, 0, 0))
  /\ pc' = "mux"
  /\ UNCHANGED <<reqVars, elapsed, i, sceneVars, listVars, failedOp, zeroAt, response, outFiles>>

\* the mux wrote OUT_DIR/video-<outId>.<outFormat>; res.json({status: "done", ...})
MuxDone ==
  /\ req.handler \in SceneHandlers
  /\ Awaiting("mux", "ffmpegMux")
  /\ inflight' = Resolved(inflight, TheOp("ffmpegMux"))
  /\ outFiles' = outFiles \cup {"video"}
  /\ response' = DoneResponse(Len(segPaths))
  /\ pc' = "done"
  /\ UNCHANGED <<reqVars, elapsed, i, sceneVars, listVars, started, failedOp, zeroAt>>

\* an awaited download, file operation or ffmpeg run rejects: catch (e) answers 500
OpRejects ==
  /\ pc # "done"
  /\ \E op \in inflight :
       /\ op.kind # "ffprobe"
       /\ Throw(op, <<"failed", op.kind>>)
       /\ failedOp' = IF failedOp = "" THEN op.kind ELSE failedOp
  /\ UNCHANGED <<reqVars, elapsed, i, sceneVars, listVars, started, zeroAt, outFiles>>

(* --------------- POST /render of src/unnamed/part_000 ------------------ *)
LegacyUnauthorized ==
  /\ pc = "start" /\ req.handler = "legacy"
  /\ ~req.authorized
  /\ response' = ErrorResponse(401, <<"Unauthorized">>)
  /\ pc' = "done"
  /\ elapsed' \in 0..MaxElapsed
  /\ UNCHANGED <<reqVars, i, sceneVars, listVars, inflight, started, failedOp, zeroAt, outFiles>>

\* if (timeLeft() <= 0) return res.status(504)
LegacyTimeout ==
  /\ pc = "start" /\ req.handler = "legacy"
  /\ req.authorized
  /\ elapsed' \in 0..MaxElapsed
  /\ TimeLeft(env.timeoutSec, elapsed') <= 0
  /\ response' = ErrorResponse(504, <<"Timeout before start">>)
  /\ pc' = "done"
  /\ UNCHANGED <<reqVars, i, sceneVars, listVars, inflight, started, failedOp, zeroAt, outFiles>>

LegacyAccept ==
  /\ pc = "start" /\ req.handler = "legacy"
  /\ req.authorized
  /\ elapsed' \in 0..MaxElapsed
  /\ TimeLeft(env.timeoutSec, elapsed') > 0
  /\ inflight' = {Op("mkdir", -1, 0, 0)}
  /\ started' = {[kind |-> "mkdir", idx |-> -1]}
  /\ pc' = "ensureDirs"
  /\ UNCHANGED <<reqVars, i, sceneVars, listVars, failedOp, zeroAt, response, outFiles>>

\* fetchPexelsClip up to its fetch
LegacyDirsDone ==
  /\ req.handler = "legacy"
  /\ Awaiting("ensureDirs", "mkdir")
  /\ IF ~env.hasKey
     THEN /\ Throw(TheOp("mkdir"), <<"Missing PEXELS_API_KEY">>)
          /\ UNCHANGED started
     ELSE /\ Await(TheOp("mkdir"), Op("search", -1, 0, 0))
          /\ pc' = "search"
          /\ UNCHANGED response
  /\ UNCHANGED <<reqVars, elapsed, i, sceneVars, listVars, failedOp, zeroAt, outFiles>>

\* the rest of fetchPexelsClip: json.videos[0].video_files[0].link
LegacySearchDone ==
  /\ req.handler = "legacy"
  /\ Awaiting("search", "search")
  /\ \E pool \in Pools :
       IF Len(pool) = 0
       THEN /\ Throw(TheOp("search"), <<"No stock videos found for query">>)
            /\ UNCHANGED started
       ELSE IF pool[1].video_files = <<>> \/ pool[1].video_files[1].link = ""
       THEN /\ Throw(TheOp("search"), <<"No downloadable video file link">>)
            /\ UNCHANGED started
       ELSE /\ Await(TheOp("search"), Op("clipDownload", -1, 0, 0))
            /\ pc' = "clip"
            /\ UNCHANGED response
  /\ UNCHANGED <<reqVars, elapsed, i, sceneVars, listVars, failedOp, zeroAt, outFiles>>

LegacyClipDownloaded ==
  /\ req.handler = "legacy"
  /\ Awaiting("clip", "clipDownload")
  /\ IF req.musicUrl # ""
     THEN /\ Await(TheOp("clipDownload"), Op("musicDownload", -1, 0, 0))
          /\ pc' = "music"
     ELSE /\ Await(TheOp("clipDownload"), Op("ffmpegMux", -1, 0, 0))
          /\ pc' = "mux"
  /\ UNCHANGED <<reqVars, elapsed, i, sceneVars, listVars, failedOp, zeroAt, response, outFiles>>

LegacyMusicDownloaded ==
  /\ Awaiting("music", "musicDownload")
  /\ Await(TheOp("musicDownload"), Op("ffmpegMux", -1, 0, 0))
  /\ pc' = "mux"
  /\ UNCHANGED <<reqVars, elapsed, i, sceneVars, listVars, failedOp, zeroAt, response, outFiles>>

\* ffmpeg wrote OUT_DIR/video-<outId>.<outFormat>; res.json({status: "done", ...})
LegacyFfmpegDone ==
  /\ req.handler = "legacy"
  /\ Awaiting("mux", "ffmpegMux")
  /\ inflight' = Resolved(inflight, TheOp("ffmpegMux"))
  /\ outFiles' = outFiles \cup {"video"}
  /\ response' = DoneResponse(-1)
  /\ pc' = "done"
  /\ UNCHANGED <<reqVars, elapsed, i, sceneVars, listVars, started, failedOp, zeroAt>>

(* --------------------------- specifications ---------------------------- *)
Next ==
  \/ Unauthorized \/ RejectScenes \/ AcceptRender \/ EnsureDirsDone
  \/ TtsPartDone \/ TtsListWritten \/ TtsConcatDone
  \/ ProbeOk \/ ProbeFailed \/ ProbeGarbage
  \/ SearchDone \/ ClipDownloaded \/ RenderDoneMulti \/ SceneListWritten
  \/ SceneConcatDone \/ RenderDoneSingle
  \/ ConcatListWritten \/ ConcatVideoDone \/ AListWritten \/ ConcatAudioDone
  \/ MuxDone \/ OpRejects
  \/ LegacyUnauthorized \/ LegacyTimeout \/ LegacyAccept \/ LegacyDirsDone
  \/ LegacySearchDone \/ LegacyClipDownloaded \/ LegacyMusicDownloaded \/ LegacyFfmpegDone

Spec == Init /\ [][Next]_vars

(* ----------------- splitForTTS, one character per step ----------------- *)
Alphabet == {"a", " ", "."}
SplitTexts == SeqsUpTo(Alphabet, MaxTextLen)

InitSplit ==
  /\ \E text \in SplitTexts, maxLen \in 2..MaxChunkLen :
       sp = [text |-> text, maxLen |-> maxLen, k |-> 1, parts |-> <<>>, buf |-> <<>>,
             done |-> FALSE, result |-> <<>>]
  /\ NoRequest
  /\ sz = SzIdle
  /\ pk = PkIdle
  /\ mx = MxIdle
  /\ fs = FsIdle

\* one iteration of  for (const ch of (text || "").trim())
SplitChar ==
  /\ ~sp.done
  /\ sp.k <= Len(Trim(sp.text))
  /\ LET r == SplitStep(sp.parts, sp.buf, Trim(sp.text)[sp.k], sp.maxLen)
     IN sp' = [sp EXCEPT !.k = sp.k + 1, !.parts = r[1], !.buf = r[2]]
  /\ UNCHANGED <<pipeVars, sz, pk, mx, fs>>

\* the flush after the loop and the return
SplitReturn ==
  /\ ~sp.done
  /\ sp.k > Len(Trim(sp.text))
  /\ sp' = [sp EXCEPT !.done = TRUE, !.result = SplitFlush(sp.parts, sp.buf, sp.text)]
  /\ UNCHANGED <<pipeVars, sz, pk, mx, fs>>

NextSplit == SplitChar \/ SplitReturn

SpecSplit == InitSplit /\ [][NextSplit]_vars

(* -------------------- caption-escaping specification ------------------- *)
CaptionChars == {"\\", ":", "'", "%", ",", "[", "]", "\n", "n", "a"}
Captions == SeqsUpTo(CaptionChars, MaxCaptionLen)

InitSanitize ==
  /\ \E version \in {"server", "legacy"}, text \in Captions :
       sz = [version |-> version, text |-> text, pass |-> 0, out |-> text]
  /\ NoRequest
  /\ sp = SpIdle
  /\ pk = PkIdle
  /\ mx = MxIdle
  /\ fs = FsIdle

\* one .replace call of the chain
SanitizePass ==
  /\ sz.version # ""
  /\ sz.pass < Len(SanitizePasses(sz.version))
  /\ LET p == SanitizePasses(sz.version)[sz.pass + 1]
     IN sz' = [sz EXCEPT !.pass = sz.pass + 1, !.out = ReplaceAll(sz.out, p[1], p[2])]
  /\ UNCHANGED <<pipeVars, sp, pk, mx, fs>>

NextSanitize == SanitizePass

SpecSanitize == InitSanitize /\ [][NextSanitize]_vars

(* --------------------- file-selection specification -------------------- *)
\* video files of two sizes in each orientation, and a square one
PickFiles ==
  {[width |-> 9, height |-> 16, link |-> "p"], [width |-> 18, height |-> 32, link |-> "P"],
   [width |-> 16, height |-> 9, link |-> "l"], [width |-> 32, height |-> 18, link |-> "L"],
   [width |-> 10, height |-> 10, link |-> "s"]}

InitPick ==
  /\ \E files \in SeqsUpTo(PickFiles, MaxFiles), orientation \in Orientations :
       pk = [video |-> [video_files |-> files], orientation |-> orientation,
             done |-> FALSE, file |-> NoFile]
  /\ NoRequest
  /\ sp = SpIdle
  /\ sz = SzIdle
  /\ mx = MxIdle
  /\ fs = FsIdle

\* the call  pickVideoFileForOrientation(v, orientation)
Pick ==
  /\ pk.orientation # ""
  /\ ~pk.done
  /\ pk' = [pk EXCEPT !.done = TRUE,
                      !.file = pickVideoFileForOrientation(pk.video, pk.orientation)]
  /\ UNCHANGED <<pipeVars, sp, sz, mx, fs>>

NextPick == Pick

SpecPick == InitPick /\ [][NextPick]_vars

(* ------------------------ scene-cap specification ---------------------- *)
\* a scene list longer than the cap: the capped part alternates two scenes, the rest is
\* a third one
LongScenes ==
  [k \in 1..(SceneCap + ExtraScenes) |->
     IF k > SceneCap THEN SceneC ELSE IF k % 2 = 1 THEN SceneA ELSE SceneD]

CapLists == {<<SceneA>>, <<SceneD, SceneA>>, LongScenes}

\* authorized requests of the scene handlers with a valid scene list, a provider key set
InitCap ==
  /\ req \in [handler : SceneHandlers, authorized : {TRUE}, isArray : {TRUE},
              scenes : CapLists, orientation : {"portrait"}, musicUrl : {""}]
  /\ env = [hasKey |-> TRUE, timeoutSec |-> DefaultTimeoutSec]
  /\ sp = SpIdle
  /\ sz = SzIdle
  /\ pk = PkIdle
  /\ mx = MxIdle
  /\ fs = FsIdle
  /\ InitLocals

NextCap ==
  \/ AcceptRender \/ EnsureDirsDone \/ TtsPartDone \/ TtsListWritten \/ TtsConcatDone
  \/ ProbeOk \/ ProbeFailed \/ ProbeGarbage \/ SearchDone \/ ClipDownloaded
  \/ RenderDoneMulti \/ SceneListWritten \/ SceneConcatDone \/ RenderDoneSingle
  \/ ConcatListWritten \/ ConcatVideoDone \/ AListWritten \/ ConcatAudioDone
  \/ MuxDone \/ OpRejects

SpecCap == InitCap /\ [][NextCap]_vars

(* -------------------------- muxing specification ----------------------- *)
\* the options of the final runFfmpeg call with "-shortest" left out
MuxArgsNoShortest == {"-map 0:v:0", "-map 1:a:0", "-c:v copy", "-c:a aac"}

\* the options of the final runFfmpeg call that decide the length of its output
MuxArgs == {"-map 0:v:0", "-map 1:a:0", "-c:v copy", "-c:a aac", "-shortest"}

\* length of the file ffmpeg writes from one video and one audio input: with -shortest
\* it ends with the shorter stream, without it with the longer one
MuxOutSec(args, videoSec, audioSec) ==
  IF "-shortest" \in args THEN Min(videoSec, audioSec) ELSE Max(videoSec, audioSec)

\* length of the output of the concat demuxer: the lengths of the listed files added up
RECURSIVE ConcatSec(_, _)
ConcatSec(list, field) ==
  IF list = <<>> THEN 0 ELSE Head(list)[field] + ConcatSec(Tail(list), field)

\* a built scene: the lengths of its scene video and of its narration file
BuiltScenes == [segSec : {60, 300, 1000}, voiceSec : {250, 1000}]

InitMux ==
  /\ \E scenes \in SeqsUpTo(BuiltScenes, MaxMuxScenes) :
       /\ scenes # <<>>
       /\ mx = [scenes |-> scenes, step |-> "video", videoSec |-> 0, audioSec |-> 0,
                outSec |-> 0]
  /\ NoRequest
  /\ sp = SpIdle
  /\ sz = SzIdle
  /\ pk = PkIdle
  /\ fs = FsIdle

\* await concatSegments(segPaths, videoOnly)
MuxConcatVideo ==
  /\ mx.step = "video"
  /\ mx' = [mx EXCEPT !.step = "audio", !.videoSec = ConcatSec(mx.scenes, "segSec")]
  /\ UNCHANGED <<pipeVars, sp, sz, pk, fs>>

\* await concatAudio(voicePaths, voiceAll)
MuxConcatAudio ==
  /\ mx.step = "audio"
  /\ mx' = [mx EXCEPT !.step = "mux", !.audioSec = ConcatSec(mx.scenes, "voiceSec")]
  /\ UNCHANGED <<pipeVars, sp, sz, pk, fs>>

\* await runFfmpeg(["-y", "-i", videoOnly, "-i", voiceAll, ..., "-shortest", ..., outPath])
MuxRun ==
  /\ mx.step = "mux"
  /\ mx' = [mx EXCEPT !.step = "done", !.outSec = MuxOutSec(MuxArgs, mx.videoSec, mx.audioSec)]
  /\ UNCHANGED <<pipeVars, sp, sz, pk, fs>>

NextMux == MuxConcatVideo \/ MuxConcatAudio \/ MuxRun

SpecMux == InitMux /\ [][NextMux]_vars

(* -------------------- concurrent-requests specification ---------------- *)
\* crypto.randomBytes(n).toString("hex"): identifiers of n bytes, two of them here
RandomHex(n) == {[bytes |-> n, hex |-> "a"], [bytes |-> n, hex |-> "b"]}

\* the files one request of the multi-clip handler writes for a text of one chunk and a
\* scene of one clip, in order: the asset, its directory, the fixed parts of its name and
\* the bytes of the identifier drawn for it (0: the identifier of ttsForScene again)
FileSteps ==
  << [asset |-> "vpart", dir |-> "TMP_DIR", prefix |-> "vpart-", suffix |-> "-0.mp3", bytes |-> 5],
     [asset |-> "vlist", dir |-> "TMP_DIR", prefix |-> "vlist-", suffix |-> ".txt", bytes |-> 0],
     [asset |-> "voice", dir |-> "TMP_DIR", prefix |-> "voice-", suffix |-> ".mp3", bytes |-> 0],
     [asset |-> "src", dir |-> "TMP_DIR", prefix |-> "src-0-0-", suffix |-> ".mp4", bytes |-> 4],
     [asset |-> "seg", dir |-> "TMP_DIR", prefix |-> "seg-0-0-", suffix |-> ".mp4", bytes |-> 4],
     [asset |-> "list", dir |-> "TMP_DIR", prefix |-> "list-0-", suffix |-> ".txt", bytes |-> 4],
     [asset |-> "scene", dir |-> "TMP_DIR", prefix |-> "scene-0-", suffix |-> ".mp4", bytes |-> 4],
     [asset |-> "concat", dir |-> "TMP_DIR", prefix |-> "concat-", suffix |-> ".txt", bytes |-> 5],
     [asset |-> "videoOnly", dir |-> "TMP_DIR", prefix |-> "video-", suffix |-> ".mp4", bytes |-> 5],
     [asset |-> "alist", dir |-> "TMP_DIR", prefix |-> "alist-", suffix |-> ".txt", bytes |-> 5],
     [asset |-> "voiceAll", dir |-> "TMP_DIR", prefix |-> "voice-", suffix |-> ".mp3", bytes |-> 5],
     [asset |-> "outPath", dir |-> "OUT_DIR", prefix |-> "video-", suffix |-> ".mp4", bytes |-> 6] >>

\* path.join(dir, `${prefix}${id}${suffix}`)
PathOf(st, id) == [dir |-> st.dir, prefix |-> st.prefix, id |-> id, suffix |-> st.suffix]

\* the const id of the ttsForScene call of request r
TtsId(r) == (CHOOSE f \in fs.written : f.by = r /\ f.asset = "vpart").path.id

InitFiles ==
  /\ fs = [written |-> {}, at |-> <<0, 0>>]
  /\ NoRequest
  /\ sp = SpIdle
  /\ sz = SzIdle
  /\ pk = PkIdle
  /\ mx = MxIdle

WriteFile(r, st, id) ==
  fs' = [written |-> fs.written \cup {[path |-> PathOf(st, id), by |-> r, asset |-> st.asset]},
         at |-> [fs.at EXCEPT ![r] = fs.at[r] + 1]]

\* request r writes its next file under a newly drawn identifier
WriteFresh ==
  /\ \E r \in 1..Len(fs.at) :
       /\ fs.at[r] < Len(FileSteps)
       /\ LET st == FileSteps[fs.at[r] + 1]
          IN /\ st.bytes # 0
             /\ \E id \in RandomHex(st.bytes) : WriteFile(r, st, id)
  /\ UNCHANGED <<pipeVars, sp, sz, pk, mx>>

\* request r writes the next file of ttsForScene under the identifier of that call
WriteSameId ==
  /\ \E r \in 1..Len(fs.at) :
       /\ fs.at[r] < Len(FileSteps)
       /\ LET st == FileSteps[fs.at[r] + 1]
          IN /\ st.bytes = 0
             /\ WriteFile(r, st, TtsId(r))
  /\ UNCHANGED <<pipeVars, sp, sz, pk, mx>>

NextFiles == WriteFresh \/ WriteSameId

SpecFiles == InitFiles /\ [][NextFiles]_vars

(* ------------------------------- claims -------------------------------- *)
TimelinePcs == {"concatList", "concatVideo", "alist", "concatAudio"}

\* C1: when an accepted request with N scenes (1 <= N <= 60) reaches the timeline
\* concatenation, segPaths and voicePaths both have N entries and the k-th entry of each
\* was produced by buildSceneWithVoice from the k-th input scene.
C1_TimelineInputsInOrder ==
  (req.handler \in SceneHandlers /\ pc \in TimelinePcs /\ Len(req.scenes) \in 1..SceneCap) =>
    /\ Len(segPaths) = Len(req.scenes)
    /\ Len(voicePaths) = Len(req.scenes)
    /\ \A k \in 1..Len(req.scenes) :
         /\ segPaths[k].idx = k - 1 /\ segPaths[k].from = req.scenes[k]
         /\ voicePaths[k].idx = k - 1 /\ voicePaths[k].from = req.scenes[k]

\* C1 witness: the concatenation of a request with two different scenes is reached
C1_Witness ==
  /\ req.handler \in SceneHandlers /\ pc = "concatList"
  /\ Len(req.scenes) = 2 /\ req.scenes[1] # req.scenes[2]
  /\ Len(segPaths) = 2

\* C2: the takes chosen for a scene sum to at least 3 and at most 60 seconds.
C2_SceneTotalInBand ==
  chosen # <<>> => (SumTakes(chosen) >= MinSceneSec /\ SumTakes(chosen) <= MaxSceneSec)

\* C3: after the selection of a scene with a non-empty pool, (a) no chosen take is at most
\* 0.75 seconds and (b) the chosen list is not empty and the scene did not fail on an
\* undefined candidate.
C3_NoTinyTakeAndNeverEmpty ==
  /\ \A k \in 1..Len(chosen) : chosen[k].take > SkipSec
  /\ pc \in {"clip", "render", "sceneList", "sceneConcat"} /\ req.handler \in SceneHandlers
       => chosen # <<>>
  /\ response.msg # <<"TypeError">>

\* t has one of the punctuation marks in each window of n consecutive characters
PunctuatedEvery(t, n) ==
  \A lo \in 1..(Len(t) - n + 1) : \E k \in lo..(lo + n - 1) : t[k] \in Punct

\* C4: every chunk splitForTTS returns has length at most maxLen, here for the texts of
\* the claim's example: no outer whitespace and a punctuation mark in every window
\* shorter than maxLen.
C4_ChunksWithinMaxLen ==
  (sp.done /\ sp.text # <<>> /\ Trim(sp.text) = sp.text
           /\ Len(sp.text) >= sp.maxLen /\ PunctuatedEvery(sp.text, sp.maxLen - 1)) =>
    \A k \in 1..Len(sp.result) : Len(sp.result[k]) <= sp.maxLen

\* C5: once an external operation of the request has failed, nothing else is in flight,
\* the request has ended with an error response and no output file exists.
C5_FirstFailureAborts ==
  failedOp # "" => (pc = "done" /\ inflight = {} /\ response.status = 500 /\ outFiles = {})

IsSubprocess(op) ==
  op.kind \in {"ffmpegVoice", "ffprobe", "ffmpegRender", "ffmpegSceneConcat",
               "ffmpegConcatVideo", "ffmpegConcatAudio", "ffmpegMux"}

\* C6: a request never has two subprocesses running at once, the work of scene k is in
\* flight only when exactly the scenes before k are finished, and no operation of a later
\* scene is in flight while a segment render of an earlier scene is running.
C6_ScenesOneAtATime ==
  req.handler \in SceneHandlers =>
    /\ Cardinality({op \in inflight : IsSubprocess(op)}) <= 1
    /\ \A op \in inflight : op.idx >= 0 => op.idx = Len(segPaths)
    /\ \A a, b \in inflight : ~(a.kind = "ffmpegRender" /\ b.idx > a.idx)

\* C6 witness: a segment render of the second scene is running
C6_Witness ==
  \E op \in inflight : op.kind = "ffmpegRender" /\ op.idx = 1 /\ Len(segPaths) = 1

\* C7: a request of a scene handler whose scenes value is empty, missing or not a list
\* starts no external operation, creates no file, and ends with an error response.
C7_EmptyScenesRejectedFirst ==
  (req.handler \in SceneHandlers /\ (~req.isArray \/ Len(req.scenes) = 0)) =>
    /\ started = {} /\ inflight = {} /\ outFiles = {}
    /\ pc \in {"start", "done"}
    /\ pc = "done" => response.status \in {400, 401}

\* C7 witness: an authorized request with an empty scene list has been answered 400
C7_Witness ==
  /\ req.handler \in SceneHandlers /\ req.authorized /\ req.isArray /\ req.scenes = <<>>
  /\ pc = "done" /\ response.status = 400

C9_BudgetGuard ==
  ( /\ pc # "start" /\ req.authorized
    /\ (req.handler \in SceneHandlers => (req.isArray /\ Len(req.scenes) # 0))
    /\ TimeLeft(env.timeoutSec, elapsed) <= 0 ) =>
    (started = {} /\ pc = "done" /\ response.status = 504)

\* C10: every segment render is started with a duration of at least the minClipSec of
\* its scene.
C10_SegmentAtLeastMinClip ==
  \A op \in inflight :
    (op.kind = "ffmpegRender" /\ req.handler \in SceneHandlers) =>
      op.t >= MinClipSec(Take(req.scenes)[op.idx + 1], req.handler)

\* the handler is between the footage selection of scene i and the end of its renders
Selected == req.handler \in SceneHandlers /\ pc \in {"clip", "render"} /\ chosen # <<>>

\* C11: the takes chosen for a scene never sum to more than targetSec and fall short of
\* it by at most 0.75 seconds.
C11_TotalCoversTarget ==
  Selected => (SumTakes(chosen) <= targetSec /\ targetSec - SumTakes(chosen) <= SkipSec)

\* C16 as stated: the multi-clip selection never chooses more segments than the maxClips
\* of the scene.
C16_AtMostMaxClips ==
  (Selected /\ req.handler = "multi") => Len(chosen) <= MaxClips(Take(req.scenes)[i + 1])

\* C16: the multi-clip selection never chooses more segments than the maxClips of the
\* scene when maxClips is at least 1, and exactly one segment when maxClips is below 1.
C16_AtMostMaxClipsOrOne ==
  (Selected /\ req.handler = "multi") =>
     Len(chosen) <= Max(1, MaxClips(Take(req.scenes)[i + 1]))

\* the selection of a scene stopped at its maxClips with narration time still uncovered
C16_Witness ==
  /\ Selected /\ req.handler = "multi"
  /\ Len(chosen) = MaxClips(Take(req.scenes)[i + 1])
  /\ targetSec - SumTakes(chosen) > SkipSec

\* the escaping the caption filter needs, character by character
EscapeChar(c) ==
  IF c \in {"\\", ":", "'", "%", ",", "[", "]"} THEN <<"\\", c>>
  ELSE IF c = "\n" THEN <<"\\", "n">>
  ELSE <<c>>

RECURSIVE Escaped(_)
Escaped(text) == IF text = <<>> THEN <<>> ELSE EscapeChar(Head(text)) \o Escaped(Tail(text))

\* reads an escaped caption back: backslash-n is a newline, backslash-c is c
RECURSIVE Unescaped(_)
Unescaped(out) ==
  IF out = <<>> THEN <<>>
  ELSE IF Head(out) = "\\" /\ Len(out) >= 2
       THEN <<IF out[2] = "n" THEN "\n" ELSE out[2]>> \o Unescaped(Tail(Tail(out)))
       ELSE <<Head(out)>> \o Unescaped(Tail(out))

\* C12: the returned caption has every backslash, colon, single quote, percent, comma,
\* "[" and "]" of the input preceded by one escaping backslash, every newline as
\* backslash-n, every other character unchanged and in order, and reads back to the input.
C12_EscapesEverySpecial ==
  (sz.version # "" /\ sz.pass = Len(SanitizePasses(sz.version))) =>
     (sz.out = Escaped(sz.text) /\ Unescaped(sz.out) = sz.text)

\* the files of the picked result that match the requested orientation
PkMatching ==
  {k \in 1..Len(pk.video.video_files) :
     MatchesOrientation(pk.video.video_files[k], pk.orientation)}

\* C13: for a result with a non-empty file list, the returned file is one of its files;
\* when some file matches the orientation it matches and has the largest area among the
\* matching files, otherwise it has the largest area among all files of the result.
C13_PicksLargestMatching ==
  (pk.orientation # "" /\ pk.done /\ Len(pk.video.video_files) > 0) =>
     LET files == pk.video.video_files
         among == IF PkMatching # {} THEN PkMatching ELSE 1..Len(files)
     IN /\ \E k \in among : files[k] = pk.file
        /\ \A k \in among : Area(files[k]) <= Area(pk.file)

\* a result none of whose files matches, picked with its largest file not in front
C13_Witness ==
  /\ pk.orientation # "" /\ pk.done
  /\ Len(pk.video.video_files) >= 2
  /\ PkMatching = {}
  /\ pk.file # pk.video.video_files[1]

\* t is the chunks in order, with nothing but whitespace before, between and after them
RECURSIVE Covers(_, _)
Covers(t, cs) ==
  LET u == TrimStart(t) IN
  IF cs = <<>> THEN u = <<>>
  ELSE LET c == Head(cs)
       IN /\ Len(u) >= Len(c)
          /\ SubSeq(u, 1, Len(c)) = c
          /\ Covers(SubSeq(u, Len(c) + 1, Len(u)), Tail(cs))

RECURSIVE SumLen(_)
SumLen(cs) == IF cs = <<>> THEN 0 ELSE Len(Head(cs)) + SumLen(Tail(cs))

\* C17: for a text that is not empty or all whitespace, splitForTTS returns a non-empty
\* list of non-empty chunks that, in order and with whitespace only at the chunk
\* boundaries left out, make up the trimmed text; when no punctuation mark stands at the
\* maxLen-th character of the trimmed text or later, the list is the trimmed text alone.
C17_SplitLosesNoText ==
  (sp.done /\ Trim(sp.text) # <<>>) =>
     LET t == Trim(sp.text) IN
     /\ Len(sp.result) >= 1
     /\ \A k \in 1..Len(sp.result) : sp.result[k] # <<>> /\ sp.result[k] = Trim(sp.result[k])
     /\ Covers(t, sp.result)
     /\ (\A k \in sp.maxLen..Len(t) : t[k] \notin Punct) => sp.result = <<t>>

\* a text split in two or more chunks with whitespace dropped at a boundary
C17_Witness ==
  /\ sp.done
  /\ Len(sp.result) >= 2
  /\ SumLen(sp.result) < Len(Trim(sp.text))

\* C18: a request of the scene handlers with N scenes is never rejected for its length,
\* starts no external operation for a scene after the 60th, and on success reports
\* min(N, 60) scenes, the number of scene videos concatenated, each made from the input
\* scene of its position.
C18_CapAtSixty ==
  (req.handler \in SceneHandlers /\ req.authorized /\ req.isArray /\ Len(req.scenes) > 0) =>
     /\ response.status # 400
     /\ \A s \in started : s.idx < SceneCap
     /\ response.status = 200 =>
          /\ response.meta = Min(Len(req.scenes), SceneCap)
          /\ response.meta = Len(segPaths)
          /\ \A k \in 1..Len(voicePaths) : voicePaths[k].from = req.scenes[k]

\* a request with more than 60 scenes has succeeded and reports 60
C18_Witness ==
  /\ Len(req.scenes) > SceneCap
  /\ response.status = 200
  /\ response.meta = SceneCap

C14_NoSharedPath ==
  \A x, y \in fs.written : (x.by # y.by \/ x.asset # y.asset) => x.path # y.path

TypeOK ==
  /\ pc \in {"start", "ensureDirs", "ttsPart", "ttsList", "ttsConcat", "probe", "search",
             "clip", "render", "sceneList", "sceneConcat", "concatList", "concatVideo",
             "alist", "concatAudio", "mux", "music", "done"}
  /\ Cardinality(inflight) <= 1
  /\ sp.done => sp.result = splitForTTS(sp.text, sp.maxLen)
  /\ (sz.version # "" /\ sz.pass = Len(SanitizePasses(sz.version)))
       => sz.out = sanitizeForDrawtext(sz.version, sz.text)

====
